---- MODULE Spec2Model ----
\* Process-lifecycle system calls of the kernel (kernel/src/syscall/proc.rs):
\* fork, wait4, exec, kill, getpid, getppid, exit, sleep, set_priority, over
\* the process manager.
EXTENDS Integers, Sequences, FiniteSets, TLC

\* ------------------------------------------------------------------ bounds

\* Number of slots in the process manager's table (pids 1 .. MaxPid).
MaxPid == 2

Pids == 1 .. MaxPid

\* The process created by kernel boot: the lowest pid.
BootPid == CHOOSE p \in Pids : \A q \in Pids : p <= q

\* ------------------------------------------------------------- machine words

\* Width in bytes of usize / isize on the 64-bit targets.
WordBytes == 8

\* The status sys_kill publishes.
KILL_STATUS == 256

\* Little-endian two's-complement bytes of v, n of them.
RECURSIVE ToBytes(_, _)
ToBytes(v, n) ==
    IF n = 0 THEN << >> ELSE << v % 256 >> \o ToBytes(v \div 256, n - 1)

\* `exit_code as usize` for an isize exit_code: the same bits.
IsizeAsUsize(c) == ToBytes(c, WordBytes)

\* The number of SIGKILL in place of 0x100.
KillCodeSignal == ToBytes(9, WordBytes)

\* The usize literal 0x100 handed to manager.exit by sys_kill.
KillCode == ToBytes(KILL_STATUS, WordBytes)

\* The Linux wait status layout: the exit code in bits 8..15.
AsI32Shifted(u) == 256 * u[1] + 65536 * u[2] + 16777216 * (u[3] % 128)

\* `exit_code as i32` for a usize exit_code: the low four bytes, signed.
AsI32(u) ==
    u[1] + 256 * u[2] + 65536 * u[3]
      + 16777216 * (IF u[4] >= 128 THEN u[4] - 256 ELSE u[4])

\* x & 0xFF of a signed integer in two's complement.
LowByte(x) == x % 256

ZeroCode == ToBytes(0, WordBytes)

\* min(x, 255): saturation at the largest u8.
ClampU8(x) == IF x > 255 THEN 255 ELSE x

\* `priority as u8` for a usize priority: the low byte.
AsU8(x) == x % 256

\* `time >= 1 << 31` for a usize time given by its bytes.
ParksForever(time) == time[4] >= 128 \/ \E i \in 5 .. WordBytes : time[i] # 0

\* ------------------------------------------------------------------ inputs

\* Exit codes user programs pass to exit (isize).
ExitCodes == {263, -1}

\* pid arguments of wait4 (isize): any child, the unimplemented 0 and the
\* pids of the table, used or free.
Selectors == {-1, 0} \cup Pids

\* time arguments of sleep (usize, as bytes): 2^31 - 1, the longest timed
\* sleep, and 2^31, the shortest that parks.
Times == {<< 255, 255, 255, 127, 0, 0, 0, 0 >>, << 0, 0, 0, 128, 0, 0, 0, 0 >>}

\* priority arguments of set_priority (usize).
Priorities == {7, 255, 256, 300}

\* User pointers: null, one that passes validation, one that fails it.
Ptrs == {"null", "ok", "bad"}

\* Longest argv a program passes to exec.
MaxArgs == 2

\* What the root file system holds under each path: a loadable program, a
\* file that reads short, or the step of the lookup that fails.
Paths == {"/bin/a", "/bin/b", "/short", "/nolookup", "/nometa", "/noread"}

\* An argv entry: a C string, or a pointer that fails validation.  The first
\* entry names the program; the others are plain words.
ArgPtrs == Paths \cup {"bad"}
WordPtrs == {"hi", "bad"}

\* The null-terminated arrays of at most n entries.
RECURSIVE ArgArrays(_)
ArgArrays(n) ==
    IF n = 0 THEN {<< >>}
    ELSE IF n = 1 THEN {<< >>} \cup {<< a >> : a \in ArgPtrs}
    ELSE LET shorter == ArgArrays(n - 1) IN
         shorter \cup {Append(a, w) : a \in {b \in shorter : Len(b) = n - 1}, w \in WordPtrs}

\* argv: null, or a readable null-terminated array.
Argvs ==
    {[kind |-> "null", v |-> << >>]}
      \cup {[kind |-> "array", v |-> a] : a \in ArgArrays(MaxArgs)}

\* ------------------------------------------------------- process manager

St(k, target, code) == [k |-> k, target |-> target, code |-> code]
Ready == St("Ready", 0, ZeroCode)
Sleeping == St("Sleeping", 0, ZeroCode)
Waiting(target) == St("Waiting", target, ZeroCode)
WaitingChild == St("WaitingChild", 0, ZeroCode)
Exited(code) == St("Exited", 0, code)
NoStatus == St("None", 0, ZeroCode)

\* The priority of a record nobody set one for.
DefaultPriority == 0

NoProc ==
    [present |-> FALSE, status |-> NoStatus, parent |-> 0, children |-> << >>,
     priority |-> DefaultPriority]

\* alloc_pid: the lowest free slot.
HasFreePid(ps) == \E p \in Pids : ~ps[p].present
AllocPid(ps) == CHOOSE p \in Pids : ~ps[p].present /\ \A q \in Pids : q < p => ps[q].present

\* manager.add(context, parent): a Ready record, linked under its parent
\* (parent 0: no parent).
MgrAdd(ps, pid, parent) ==
    [q \in Pids |->
        IF q = pid
        THEN [present |-> TRUE, status |-> Ready, parent |-> parent, children |-> << >>,
              priority |-> DefaultPriority]
        ELSE IF q = parent THEN [ps[q] EXCEPT !.children = Append(@, pid)]
        ELSE ps[q]]

MgrGetChildren(ps, pid) == ps[pid].children

MgrGetParent(ps, pid) == ps[pid].parent

\* manager.get_status(pid): Option<Status>, NoStatus standing for None.
MgrGetStatus(ps, pid) ==
    IF pid \in Pids /\ ps[pid].present THEN ps[pid].status ELSE NoStatus

SeqWithout(s, x) == SelectSeq(s, LAMBDA y : y # x)

\* manager.remove(pid): the record is dropped and no child set names it.
MgrRemove(ps, pid) ==
    [q \in Pids |->
        IF q = pid THEN NoProc
        ELSE IF ps[q].present
             THEN [ps[q] EXCEPT !.children = SeqWithout(@, pid)]
             ELSE ps[q]]

\* manager.wait(pid, target) and manager.wait_child(pid): blocking interest.
MgrWait(ps, pid, target) == [ps EXCEPT ![pid].status = Waiting(target)]
MgrWaitChild(ps, pid) == [ps EXCEPT ![pid].status = WaitingChild]

\* Who a transition of pid to Exited wakes: waiters registered for pid and
\* the parent when it waits for any child.
Woken(ps, pid) ==
    {w \in Pids : /\ ps[w].present
                  /\ \/ ps[w].status = Waiting(pid)
                     \/ ps[w].status = WaitingChild /\ ps[pid].parent = w}

\* An exit that records its code over the code of an earlier exit.
MgrExitOverwrites(ps, pid, code) ==
    IF ~ps[pid].present THEN ps
    ELSE [q \in Pids |->
            IF q = pid THEN [ps[q] EXCEPT !.status = Exited(code)]
            ELSE IF q \in Woken(ps, pid) THEN [ps[q] EXCEPT !.status = Ready]
            ELSE ps[q]]

\* manager.exit(pid, code): status becomes Exited(code) and the waiters wake,
\* in one step; an absent or already exited target is left alone.
MgrExit(ps, pid, code) ==
    IF ~ps[pid].present \/ ps[pid].status.k = "Exited" THEN ps
    ELSE [q \in Pids |->
            IF q = pid THEN [ps[q] EXCEPT !.status = Exited(code)]
            ELSE IF q \in Woken(ps, pid) THEN [ps[q] EXCEPT !.status = Ready]
            ELSE ps[q]]

\* manager.set_priority(pid, priority)
MgrSetPriority(ps, pid, priority) == [ps EXCEPT ![pid].priority = priority]

\* thread::park() and thread::sleep(duration): the thread leaves the run queue.
MgrSleep(ps, pid) == [ps EXCEPT ![pid].status = Sleeping]

\* The timer wakes a sleeper whose duration has passed.
MgrWakeup(ps, pid) ==
    IF ps[pid].present /\ ps[pid].status = Sleeping
    THEN [ps EXCEPT ![pid].status = Ready]
    ELSE ps

\* ------------------------------------------------------------------ state

VARIABLES
    procs,       \* the process manager's table: pid -> record
    pc,          \* where each thread is: "user" or a point inside a handler
    locals,      \* the handler's locals that live across its blocking points
    files,       \* process().files: the open descriptors
    cwd,         \* process().cwd
    memory_set,  \* process().memory_set: the address space the process owns
    active,      \* the address space activated for the thread
    tf,          \* the trap frame the thread returns to user mode with
    kstack,      \* current_thread().kstack
    ret,         \* what the handler returning in this step gives its caller
    kernel,      \* "ok", or "panic" once a handler aborted the kernel
    discarded    \* the Thread value the last sys_exec dropped on its return

vars == << procs, pc, locals, files, cwd, memory_set, active, tf, kstack, ret,
           kernel, discarded >>

\* WaitFor
AnyChild == [kind |-> "AnyChild", pid |-> 0]
WaitPid(p) == [kind |-> "Pid", pid |-> p]

NoArgv == [kind |-> "none", v |-> << >>]

NoLocals ==
    [target |-> AnyChild, wstatus |-> "null", exit_code |-> 0, name |-> "null",
     argv |-> NoArgv, args |-> << >>, buf |-> "none", time |-> ZeroCode]

\* A handler's return to the thread pid: the call and its arguments, its
\* SysResult (Ok(val) or Err(err)) and what it wrote through user pointers.
OkOut(pid, call, arg, v, out) ==
    [pid |-> pid, call |-> call, arg |-> arg, ok |-> TRUE, val |-> v, err |-> "none",
     out |-> out]
Ok(pid, call, arg, v) == OkOut(pid, call, arg, v, << >>)
Err(pid, call, arg, e) ==
    [pid |-> pid, call |-> call, arg |-> arg, ok |-> FALSE, val |-> 0, err |-> e,
     out |-> << >>]
NoRet == Ok(0, "none", << >>, 0)

\* Thread state of every empty slot.
NoImage == [image |-> "none", args |-> << >>]
NoFrame == [origin |-> "none", image |-> "none", args |-> << >>]
NoStack == [owner |-> 0, placeholder |-> FALSE]

\* A Thread value that holds nothing.
NoThread ==
    [tf |-> NoFrame, kstack |-> NoStack,
     proc |-> [memory_set |-> NoImage, files |-> {}, cwd |-> "none"]]

BootImage == [image |-> "init", args |-> << >>]
BootFrame == [origin |-> "trap", image |-> "init", args |-> << >>]
BootFiles == {0, 1}

Init ==
    /\ procs = [p \in Pids |->
                  IF p = BootPid
                  THEN [present |-> TRUE, status |-> Ready, parent |-> 0,
                        children |-> << >>, priority |-> DefaultPriority]
                  ELSE NoProc]
    /\ pc = [p \in Pids |-> "user"]
    /\ locals = [p \in Pids |-> NoLocals]
    /\ files = [p \in Pids |-> IF p = BootPid THEN BootFiles ELSE {}]
    /\ cwd = [p \in Pids |-> IF p = BootPid THEN "/" ELSE "none"]
    /\ memory_set = [p \in Pids |-> IF p = BootPid THEN BootImage ELSE NoImage]
    /\ active = [p \in Pids |-> IF p = BootPid THEN BootImage ELSE NoImage]
    /\ tf = [p \in Pids |-> IF p = BootPid THEN BootFrame ELSE NoFrame]
    /\ kstack = [p \in Pids |->
                   IF p = BootPid THEN [owner |-> p, placeholder |-> FALSE]
                   ELSE NoStack]
    /\ ret = NoRet
    /\ kernel = "ok"
    /\ discarded = NoThread

\* A scheduler that also resumes the threads the manager holds Exited.
RunnableThoughExited(p) ==
    /\ kernel = "ok"
    /\ procs[p].present
    /\ procs[p].status.k \in {"Ready", "Exited"}

\* A thread the scheduler may run: the kernel is up and the manager holds the
\* thread Ready.  yield_now re-enters only then.
Runnable(p) ==
    /\ kernel = "ok"
    /\ procs[p].present
    /\ procs[p].status = Ready

InUser(p) == Runnable(p) /\ pc[p] = "user"

\* A panic stops the kernel: no thread runs again and no process state
\* outlives it.
Panic ==
    /\ kernel' = "panic"
    /\ procs' = [p \in Pids |-> NoProc]
    /\ pc' = [p \in Pids |-> "user"]
    /\ locals' = [p \in Pids |-> NoLocals]
    /\ files' = [p \in Pids |-> {}]
    /\ cwd' = [p \in Pids |-> "none"]
    /\ memory_set' = [p \in Pids |-> NoImage]
    /\ active' = [p \in Pids |-> NoImage]
    /\ tf' = [p \in Pids |-> NoFrame]
    /\ kstack' = [p \in Pids |-> NoStack]
    /\ ret' = NoRet
    /\ discarded' = NoThread

\* A step inside a handler delivers nothing to user mode.
NoReturn == ret' = NoRet

\* The handler returns r to user mode.
Return(p, r) ==
    /\ pc' = [pc EXCEPT ![p] = "user"]
    /\ locals' = [locals EXCEPT ![p] = NoLocals]
    /\ ret' = r

UNCHANGED_image == UNCHANGED << files, cwd, memory_set, active, tf, kstack >>

\* check_mut_ptr(ptr)
CheckMutPtr(ptr) == ptr = "ok"

\* ------------------------------------------------------------------- fork

ForkParentNone(p) == 0

\* thread::current().id(), the parent sys_fork hands to manager.add.
ForkParent(p) == p

\* sys_fork: current_thread().fork(tf), then manager.add(context, current).
\* The new thread duplicates the caller; its trap frame returns 0.
SysFork(p) ==
    /\ InUser(p)
    /\ HasFreePid(procs)
    /\ LET pid == AllocPid(procs) IN
        /\ procs' = MgrAdd(procs, pid, ForkParent(p))
        /\ files' = [files EXCEPT ![pid] = files[p]]
        /\ cwd' = [cwd EXCEPT ![pid] = cwd[p]]
        /\ memory_set' = [memory_set EXCEPT ![pid] = memory_set[p]]
        /\ active' = [active EXCEPT ![pid] = memory_set[p]]
        /\ tf' = [tf EXCEPT ![pid] = tf[p]]
        /\ kstack' = [kstack EXCEPT ![pid] = [owner |-> pid, placeholder |-> FALSE]]
        /\ ret' = Ok(p, "fork", << >>, pid)
        /\ UNCHANGED << pc, locals, kernel, discarded >>

\* ------------------------------------------------------------------ wait4

Wait4ValidateNever(wstatus) == TRUE

\* if !wstatus.is_null() { check_mut_ptr(wstatus)? }
Wait4Validate(wstatus) == wstatus = "null" \/ CheckMutPtr(wstatus)

\* The pid argument a WaitFor came from.
Selector(target) == IF target.kind = "AnyChild" THEN -1 ELSE target.pid

\* The arguments of the wait4 call the thread p is in.
Wait4Arg(p) == << Selector(locals[p].target), locals[p].wstatus >>

\* sys_wait4, entry: the wstatus check and the selector.
SysWait4(p, pid, wstatus) ==
    /\ InUser(p)
    /\ IF ~Wait4Validate(wstatus)
       THEN /\ Return(p, Err(p, "wait4", << pid, wstatus >>, "EFAULT"))
            /\ UNCHANGED << procs, kernel, discarded >>
            /\ UNCHANGED_image
       ELSE IF pid = -1 \/ pid > 0
       THEN /\ pc' = [pc EXCEPT ![p] = "wait_poll"]
            /\ locals' = [locals EXCEPT ![p] =
                  [NoLocals EXCEPT !.target = IF pid = -1 THEN AnyChild ELSE WaitPid(pid),
                                   !.wstatus = wstatus]]
            /\ NoReturn
            /\ UNCHANGED << procs, kernel, discarded >>
            /\ UNCHANGED_image
       ELSE \* unimplemented!()
            Panic

\* WaitFor::Pid(pid) taken as it is, child or not.
WaitProcsUnchecked(ps, p, target) ==
    IF target.kind = "AnyChild" THEN MgrGetChildren(ps, p) ELSE << target.pid >>

\* wait_procs: the caller's children the target selects.
WaitProcs(ps, p, target) ==
    IF target.kind = "AnyChild" THEN MgrGetChildren(ps, p)
    ELSE IF \E i \in DOMAIN MgrGetChildren(ps, p) : MgrGetChildren(ps, p)[i] = target.pid
         THEN << target.pid >>
         ELSE << >>

\* A loop that reaps the first child that has a record, Exited or not.
RECURSIVE PollChildrenAnyStatus(_, _)
PollChildrenAnyStatus(ps, wait_procs) ==
    IF wait_procs = << >> THEN [kind |-> "sleep", pid |-> 0, code |-> ZeroCode]
    ELSE LET st == MgrGetStatus(ps, Head(wait_procs)) IN
         IF st.k = "None"
         THEN [kind |-> "echild", pid |-> 0, code |-> ZeroCode]
         ELSE [kind |-> "reap", pid |-> Head(wait_procs), code |-> st.code]

\* for pid in wait_procs { match get_status(pid) ... }: the first Exited child
\* is reaped, a missing record ends the call, anything else is skipped.
RECURSIVE PollChildren(_, _)
PollChildren(ps, wait_procs) ==
    IF wait_procs = << >> THEN [kind |-> "sleep", pid |-> 0, code |-> ZeroCode]
    ELSE LET st == MgrGetStatus(ps, Head(wait_procs)) IN
         IF st.k = "Exited"
         THEN [kind |-> "reap", pid |-> Head(wait_procs), code |-> st.code]
         ELSE IF st.k = "None"
         THEN [kind |-> "echild", pid |-> 0, code |-> ZeroCode]
         ELSE PollChildren(ps, Tail(wait_procs))

ReapNothing(ps, pid) == ps

\* processor().manager().remove(pid)
Reap(ps, pid) == MgrRemove(ps, pid)

\* The thread state of a removed record goes with it.
DropThread(pid) ==
    /\ files' = [files EXCEPT ![pid] = {}]
    /\ cwd' = [cwd EXCEPT ![pid] = "none"]
    /\ memory_set' = [memory_set EXCEPT ![pid] = NoImage]
    /\ active' = [active EXCEPT ![pid] = NoImage]
    /\ tf' = [tf EXCEPT ![pid] = NoFrame]
    /\ kstack' = [kstack EXCEPT ![pid] = NoStack]

\* sys_wait4, one round of the loop up to the blocking step.
Wait4Poll(p) ==
    /\ Runnable(p)
    /\ pc[p] = "wait_poll"
    /\ LET wait_procs == WaitProcs(procs, p, locals[p].target)
           r == PollChildren(procs, wait_procs)
       IN IF wait_procs = << >> \/ r.kind = "echild"
          THEN /\ Return(p, Err(p, "wait4", Wait4Arg(p), "ECHILD"))
               /\ UNCHANGED procs
               /\ UNCHANGED_image
          ELSE IF r.kind = "reap"
          THEN /\ procs' = Reap(procs, r.pid)
               /\ DropThread(r.pid)
               /\ locals' = [locals EXCEPT ![p] = NoLocals, ![r.pid] = NoLocals]
               /\ ret' = OkOut(p, "wait4", Wait4Arg(p), r.pid,
                               IF locals[p].wstatus # "null"
                               THEN << AsI32(r.code) >> ELSE << >>)
               /\ pc' = [pc EXCEPT ![p] = "user", ![r.pid] = "user"]
          ELSE /\ pc' = [pc EXCEPT ![p] = "wait_block"]
               /\ NoReturn
               /\ UNCHANGED << procs, locals >>
               /\ UNCHANGED_image
    /\ UNCHANGED << kernel, discarded >>

\* sys_wait4: manager.wait_child(current) or manager.wait(current, pid).
Wait4Block(p) ==
    /\ Runnable(p)
    /\ pc[p] = "wait_block"
    /\ procs' = IF locals[p].target.kind = "AnyChild"
                THEN MgrWaitChild(procs, p)
                ELSE MgrWait(procs, p, locals[p].target.pid)
    /\ pc' = [pc EXCEPT ![p] = "wait_yield"]
    /\ NoReturn
    /\ UNCHANGED << locals, kernel, discarded >>
    /\ UNCHANGED_image

\* sys_wait4: yield_now() comes back once the thread is Ready; the loop restarts.
Wait4Yield(p) ==
    /\ Runnable(p)
    /\ pc[p] = "wait_yield"
    /\ pc' = [pc EXCEPT ![p] = "wait_poll"]
    /\ NoReturn
    /\ UNCHANGED << procs, locals, kernel, discarded >>
    /\ UNCHANGED_image

\* ------------------------------------------------------------------- exit

\* What sys_close_internal(&mut proc, fd) returns over the loop of sys_exit:
\* Ok(()) for every descriptor, or Err for one of them.
CloseResults == {"ok", "err"}

\* The table after a loop that closes nothing.
CloseNone(table) == table

\* for fd in fds { sys_close_internal(&mut proc, fd) }, fds being the keys of
\* the table: every entry is taken out.
CloseAll(table) == table \ {fd \in table : TRUE}

\* sys_exit, first half: every descriptor of the caller's table is closed, and
\* the unwrap() of a close that failed aborts the kernel.
SysExit(p, exit_code, closing) ==
    /\ InUser(p)
    /\ IF files[p] # {} /\ closing = "err"
       THEN \* Err(..).unwrap()
            Panic
       ELSE /\ files' = [files EXCEPT ![p] = CloseAll(files[p])]
            /\ pc' = [pc EXCEPT ![p] = "exit_publish"]
            /\ locals' = [locals EXCEPT ![p] = [NoLocals EXCEPT !.exit_code = exit_code]]
            /\ NoReturn
            /\ UNCHANGED << procs, cwd, memory_set, active, tf, kstack, kernel, discarded >>

\* sys_exit, second half: manager.exit(pid, exit_code as usize), then the
\* yield_now() that never comes back.
ExitPublish(p) ==
    /\ Runnable(p)
    /\ pc[p] = "exit_publish"
    /\ procs' = MgrExit(procs, p, IsizeAsUsize(locals[p].exit_code))
    /\ pc' = [pc EXCEPT ![p] = "exit_yield"]
    /\ NoReturn
    /\ UNCHANGED << locals, kernel, discarded >>
    /\ UNCHANGED_image

\* ------------------------------------------------------------------- kill

\* A kill that takes no target for the caller.
KillsNobodySelf(p, pid) == FALSE

\* if pid == thread::current().id()
KillsSelf(p, pid) == pid = p

\* sys_kill: manager.exit(pid, 0x100); the caller yields when it is the target,
\* otherwise Ok(0).
SysKill(p, pid) ==
    /\ InUser(p)
    /\ procs' = MgrExit(procs, pid, KillCode)
    /\ IF KillsSelf(p, pid)
       THEN /\ pc' = [pc EXCEPT ![p] = "kill_yield"]
            /\ NoReturn
            /\ UNCHANGED locals
       ELSE Return(p, Ok(p, "kill", << pid >>, 0))
    /\ UNCHANGED << kernel, discarded >>
    /\ UNCHANGED_image

\* --------------------------------------------------------------- identity

\* sys_getpid
SysGetpid(p) ==
    /\ InUser(p)
    /\ Return(p, Ok(p, "getpid", << >>, p))
    /\ UNCHANGED << procs, kernel, discarded >>
    /\ UNCHANGED_image

\* sys_getppid
SysGetppid(p) ==
    /\ InUser(p)
    /\ Return(p, Ok(p, "getppid", << >>, MgrGetParent(procs, p)))
    /\ UNCHANGED << procs, kernel, discarded >>
    /\ UNCHANGED_image

\* ------------------------------------------------------------------ sleep

\* sys_sleep: thread::park() for time >= 1 << 31, thread::sleep(time * 10 ms)
\* below it; the thread is off the run queue until something wakes it.
SysSleep(p, time) ==
    /\ InUser(p)
    /\ procs' = MgrSleep(procs, p)
    /\ pc' = [pc EXCEPT ![p] = "sleep_wait"]
    /\ locals' = [locals EXCEPT ![p] = [NoLocals EXCEPT !.time = time]]
    /\ NoReturn
    /\ UNCHANGED << kernel, discarded >>
    /\ UNCHANGED_image

\* The duration of a timed sleep has passed: the timer wakes the thread.  A
\* parked thread has no timer.
TimerWake(p) ==
    /\ kernel = "ok"
    /\ procs[p].present
    /\ procs[p].status = Sleeping
    /\ pc[p] = "sleep_wait"
    /\ ~ParksForever(locals[p].time)
    /\ procs' = MgrWakeup(procs, p)
    /\ NoReturn
    /\ UNCHANGED << pc, locals, kernel, discarded >>
    /\ UNCHANGED_image

\* sys_sleep: park() or sleep() has come back; Ok(0).
SleepReturn(p) ==
    /\ Runnable(p)
    /\ pc[p] = "sleep_wait"
    /\ Return(p, Ok(p, "sleep", << locals[p].time >>, 0))
    /\ UNCHANGED << procs, kernel, discarded >>
    /\ UNCHANGED_image

\* --------------------------------------------------------------- priority

\* sys_set_priority: manager.set_priority(pid, priority as u8); Ok(0).
SysSetPriority(p, priority) ==
    /\ InUser(p)
    /\ procs' = MgrSetPriority(procs, p, AsU8(priority))
    /\ Return(p, Ok(p, "set_priority", << priority >>, 0))
    /\ UNCHANGED << kernel, discarded >>
    /\ UNCHANGED_image

\* ------------------------------------------------------------------- exec

\* check_and_clone_cstr(ptr)
CheckCstr(ptr) == ptr # "bad"

\* while !(*current_argv).is_null() { check_and_clone_cstr(*current_argv)? }:
\* the copied args, or the failure of the first entry that does not validate.
RECURSIVE CloneArgs(_)
CloneArgs(v) ==
    IF v = << >> THEN [ok |-> TRUE, args |-> << >>]
    ELSE IF ~CheckCstr(Head(v)) THEN [ok |-> FALSE, args |-> << >>]
    ELSE LET rest == CloneArgs(Tail(v)) IN
         IF rest.ok THEN [ok |-> TRUE, args |-> << Head(v) >> \o rest.args]
         ELSE rest

\* A null argv taken for an empty array.
ExecArgsNullIsEmpty(name, argv) ==
    IF name # "null" /\ ~CheckCstr(name) THEN [kind |-> "err", err |-> "EFAULT", args |-> << >>]
    ELSE IF CloneArgs(argv.v).ok
    THEN [kind |-> "ok", err |-> "none", args |-> CloneArgs(argv.v).args]
    ELSE [kind |-> "err", err |-> "EFAULT", args |-> << >>]

\* sys_exec up to "Read program file": name, the argv check, the copy of args.
ExecArgs(name, argv) ==
    IF name # "null" /\ ~CheckCstr(name) THEN [kind |-> "err", err |-> "EFAULT", args |-> << >>]
    ELSE IF argv.kind = "null" THEN [kind |-> "err", err |-> "EINVAL", args |-> << >>]
    ELSE IF CloneArgs(argv.v).ok
    THEN [kind |-> "ok", err |-> "none", args |-> CloneArgs(argv.v).args]
    ELSE [kind |-> "err", err |-> "EFAULT", args |-> << >>]

SysExec(p, name, argv) ==
    /\ InUser(p)
    /\ LET o == ExecArgs(name, argv) IN
        IF o.kind = "err"
        THEN /\ Return(p, Err(p, "exec", << name, argv >>, o.err))
             /\ UNCHANGED kernel
        ELSE /\ pc' = [pc EXCEPT ![p] = "exec_read"]
             /\ locals' = [locals EXCEPT ![p] = [NoLocals EXCEPT !.name = name, !.argv = argv, !.args = o.args]]
             /\ NoReturn
             /\ UNCHANGED kernel
    /\ UNCHANGED << procs, discarded >>
    /\ UNCHANGED_image

\* The arguments of the exec call the thread p is in.
ExecArg(p) == << locals[p].name, locals[p].argv >>

\* ROOT_INODE.lookup(path)?, inode.metadata()?, inode.read_at(0, buf)?: the
\* bytes of the file, or the error of the step that fails.  A file that reads
\* short leaves the tail of buf as set_len left it: any bytes at all.
ReadProgram(path) ==
    IF path = "/nolookup" THEN {[ok |-> FALSE, err |-> "ENOENT", buf |-> "none"]}
    ELSE IF path = "/nometa" THEN {[ok |-> FALSE, err |-> "EIO", buf |-> "none"]}
    ELSE IF path = "/noread" THEN {[ok |-> FALSE, err |-> "EIO", buf |-> "none"]}
    ELSE IF path = "/short"
    THEN {[ok |-> TRUE, err |-> "none", buf |-> b] : b \in {"/bin/a", "/bin/b", "garbage"}}
    ELSE {[ok |-> TRUE, err |-> "none", buf |-> path]}

\* The descriptors are closed as soon as the args are copied, before the
\* program file is read.
ExecReadCloseFirst(p) ==
    /\ Runnable(p)
    /\ pc[p] = "exec_read"
    /\ IF locals[p].args = << >>
       THEN Panic
       ELSE /\ \E r \in ReadProgram(locals[p].args[1]) :
                IF r.ok
                THEN /\ pc' = [pc EXCEPT ![p] = "exec_load"]
                     /\ locals' = [locals EXCEPT ![p].buf = r.buf]
                     /\ NoReturn
                ELSE Return(p, Err(p, "exec", ExecArg(p), r.err))
            /\ files' = [files EXCEPT ![p] = {}]
            /\ UNCHANGED << procs, kernel, cwd, memory_set, active, tf, kstack, discarded >>

\* sys_exec, "Read program file": args[0] names the file.
ExecRead(p) ==
    /\ Runnable(p)
    /\ pc[p] = "exec_read"
    /\ IF locals[p].args = << >>
       THEN \* args[0] of an empty Vec
            Panic
       ELSE /\ \E r \in ReadProgram(locals[p].args[1]) :
                IF r.ok
                THEN /\ pc' = [pc EXCEPT ![p] = "exec_load"]
                     /\ locals' = [locals EXCEPT ![p].buf = r.buf]
                     /\ NoReturn
                ELSE Return(p, Err(p, "exec", ExecArg(p), r.err))
            /\ UNCHANGED << procs, kernel, discarded >>
            /\ UNCHANGED_image

\* The thread the handler runs on, as the Thread value sys_exec swaps.
CurrentThread(p) ==
    [tf |-> tf[p], kstack |-> kstack[p],
     proc |-> [memory_set |-> memory_set[p], files |-> files[p], cwd |-> cwd[p]]]

\* Thread::new_user(buf, args): a fresh image with its initial trap frame, a
\* kernel stack of its own and an empty process record.
NewUser(p, buf, args) ==
    [tf |-> [origin |-> "init", image |-> buf, args |-> args],
     kstack |-> [owner |-> p, placeholder |-> TRUE],
     proc |-> [memory_set |-> [image |-> buf, args |-> args], files |-> {}, cwd |-> ""]]

InheritNothing(thread, cur) == thread

\* thread.proc.lock().files = proc.files.clone(); ...cwd = proc.cwd.clone()
Inherit(thread, cur) ==
    [thread EXCEPT !.proc.files = cur.proc.files, !.proc.cwd = cur.proc.cwd]

\* The swap of the whole Thread alone, kernel stack included.
SwapWhole(cur, thread) == << thread, cur >>

\* mem::swap(&mut current_thread().kstack, &mut thread.kstack), then
\* mem::swap(current_thread(), &mut *thread): the pair << current, thread >>.
SwapKeepKStack(cur, thread) ==
    LET cur1 == [cur EXCEPT !.kstack = thread.kstack]
        thread1 == [thread EXCEPT !.kstack = cur.kstack]
    IN << thread1, cur1 >>

\* sys_exec from "Make new Thread" to Ok(0).
ExecLoad(p) ==
    /\ Runnable(p)
    /\ pc[p] = "exec_load"
    /\ IF locals[p].buf = "garbage"
       THEN \* new_user has no error to return for bytes that are no program
            Panic
       ELSE LET thread == Inherit(NewUser(p, locals[p].buf, locals[p].args),
                                  CurrentThread(p))
                swapped == SwapKeepKStack(CurrentThread(p), thread)
            IN /\ active' = [active EXCEPT ![p] = thread.proc.memory_set]
               /\ tf' = [tf EXCEPT ![p] = thread.tf]
               /\ kstack' = [kstack EXCEPT ![p] = swapped[1].kstack]
               /\ memory_set' = [memory_set EXCEPT ![p] = swapped[1].proc.memory_set]
               /\ files' = [files EXCEPT ![p] = swapped[1].proc.files]
               /\ cwd' = [cwd EXCEPT ![p] = swapped[1].proc.cwd]
               /\ discarded' = swapped[2]
               /\ Return(p, Ok(p, "exec", ExecArg(p), 0))
               /\ UNCHANGED << procs, kernel >>

\* ------------------------------------------------------------ specification

Next ==
    \E p \in Pids :
        \/ SysFork(p)
        \/ \E pid \in Selectors, wstatus \in Ptrs : SysWait4(p, pid, wstatus)
        \/ Wait4Poll(p)
        \/ Wait4Block(p)
        \/ Wait4Yield(p)
        \/ \E exit_code \in ExitCodes, closing \in CloseResults :
                SysExit(p, exit_code, closing)
        \/ ExitPublish(p)
        \/ \E pid \in Pids : SysKill(p, pid)
        \/ SysGetpid(p)
        \/ SysGetppid(p)

Spec == Init /\ [][Next]_vars

\* The boot process replacing its image again and again.
NextExec ==
    \E p \in Pids :
        \/ \E name \in Ptrs, argv \in Argvs : SysExec(p, name, argv)
        \/ ExecRead(p)
        \/ ExecLoad(p)

SpecExec == Init /\ [][NextExec]_vars

\* Processes that block, in sleep or in wait4, and are killed.
NextSleep ==
    \E p \in Pids :
        \/ SysFork(p)
        \/ \E pid \in Selectors, wstatus \in Ptrs : SysWait4(p, pid, wstatus)
        \/ Wait4Poll(p)
        \/ Wait4Block(p)
        \/ Wait4Yield(p)
        \/ \E pid \in Pids : SysKill(p, pid)
        \/ \E time \in Times : SysSleep(p, time)
        \/ TimerWake(p)
        \/ SleepReturn(p)

SpecSleep == Init /\ [][NextSleep]_vars

\* Processes that fork and set their priorities.
NextPriority ==
    \E p \in Pids :
        \/ SysFork(p)
        \/ \E priority \in Priorities : SysSetPriority(p, priority)
        \/ SysGetpid(p)
        \/ SysGetppid(p)

SpecPriority == Init /\ [][NextPriority]_vars

\* ------------------------------------------------------------ properties

Children(ps, p) == {ps[p].children[i] : i \in DOMAIN ps[p].children}

IsExited(ps, c) == ps[c].present /\ ps[c].status.k = "Exited"

\* The step is the return of a successful wait4.
Wait4Returns == ret'.call = "wait4" /\ ret'.ok

\* The step is taken by the thread p, which was at the point at of a handler.
StepsFrom(p, at) == Runnable(p) /\ pc[p] = at /\ pc'[p] # at /\ kernel' = "ok"

\* C1: a wait4 that returns c finds c an Exited child of the caller and removes
\* its record, so that no child set names c afterwards and no later call can
\* return this child again; and a wait4 call of a process that has no
\* children (left), whatever its selector, returns ECHILD.
C1_ReapedOnce ==
    [][/\ Wait4Returns =>
            /\ IsExited(procs, ret'.val)
            /\ ret'.val \in Children(procs, ret'.pid)
            /\ ~procs'[ret'.val].present
            /\ \A q \in Pids : ret'.val \notin Children(procs', q)
       /\ \A p \in Pids :
            StepsFrom(p, "wait_poll") /\ procs[p].children = << >>
                => ret' = Err(p, "wait4", Wait4Arg(p), "ECHILD")
      ]_vars

\* C1 witness: a wait4 has just reaped the caller's only child.
C1_Witness ==
    /\ ret.call = "wait4" /\ ret.ok
    /\ ~procs[ret.val].present
    /\ procs[ret.pid].children = << >>

\* The children the wait4 call the thread p is in selects.
Selected(p) ==
    LET wait_procs == WaitProcs(procs, p, locals[p].target) IN
    {wait_procs[i] : i \in DOMAIN wait_procs}

\* The thread p has registered its interest and sleeps until the manager
\* makes it Ready.
Blocked(p) ==
    /\ procs[p].present
    /\ procs[p].status.k \in {"Waiting", "WaitingChild"}

InWait4(p) ==
    /\ procs[p].present
    /\ procs[p].status.k # "Exited"
    /\ pc[p] \in {"wait_poll", "wait_block", "wait_yield"}

\* C2: a wait4 caller is never asleep while a child its selector matches is
\* Exited.
C2_NoSleepPastExit ==
    \A p \in Pids : Blocked(p) => \A c \in Selected(p) : ~IsExited(procs, c)

\* The scheduler runs every thread that stays Ready: each step of the wait4
\* loop and of exit is taken once it can be.
FairSpec ==
    /\ Spec
    /\ \A p \in Pids :
        /\ WF_vars(Wait4Poll(p))
        /\ WF_vars(Wait4Block(p))
        /\ WF_vars(Wait4Yield(p))
        /\ WF_vars(ExitPublish(p))

\* C2: a caller inside wait4 with a selected child Exited leaves
\* wait4 (it returns, or it is killed).
C2_EventuallyReturns ==
    \A p \in Pids :
        (InWait4(p) /\ \E c \in Selected(p) : IsExited(procs, c)) ~> ~InWait4(p)

\* The child c called exit and its sys_exit published the status: the thread
\* is in the yield_now that ends sys_exit, with exit_code still in its frame.
ExitedByExit(c) == IsExited(procs, c) /\ pc[c] = "exit_yield"

\* C3: when a wait4 with a valid wstatus reaps a child that ended in
\* exit(code), the status s it stores has s & 0xFF = code & 0xFF; and a
\* wait4(-1, &s) polling while the caller's only child has ended in exit
\* returns that child's pid.
C3_ExitStatusLowByte ==
    [][/\ Wait4Returns /\ ret'.arg[2] = "ok" /\ ExitedByExit(ret'.val) =>
            /\ Len(ret'.out) = 1
            /\ LowByte(ret'.out[1]) = LowByte(locals[ret'.val].exit_code)
       /\ \A p, c \in Pids :
            /\ StepsFrom(p, "wait_poll")
            /\ Wait4Arg(p) = << -1, "ok" >>
            /\ procs[p].children = << c >>
            /\ ExitedByExit(c)
            => Wait4Returns /\ ret'.pid = p /\ ret'.val = c
      ]_vars

\* C3 witness: wait4(-1, &s) has returned the child that called exit(263),
\* with s = 263, whose low byte is 7.
C3_Witness ==
    /\ ret.call = "wait4" /\ ret.ok
    /\ ret.arg = << -1, "ok" >>
    /\ ret.out = << 263 >>
    /\ LowByte(ret.out[1]) = 7
    /\ procs[ret.pid].children = << >>

\* The process c is alive: it has a record and has not exited.
Live(ps, c) == ps[c].present /\ ps[c].status.k # "Exited"

\* C4: kill(c) of a live process c leaves c Exited(0x100); the status of an
\* exited process stays as it is until wait4 removes the record; and a
\* wait4(c, &s) polling while its child c is Exited(0x100) returns c and
\* stores s = 0x100.
C4_KilledStatus ==
    [][/\ ret'.call = "kill" /\ Live(procs, ret'.arg[1])
            => procs'[ret'.arg[1]].status = Exited(ToBytes(256, WordBytes))
       /\ \A c \in Pids :
            IsExited(procs, c) /\ procs'[c].present
                => procs'[c].status = procs[c].status
       /\ \A p, c \in Pids :
            /\ StepsFrom(p, "wait_poll")
            /\ Wait4Arg(p) = << c, "ok" >>
            /\ c \in Children(procs, p)
            /\ procs[c].status = Exited(ToBytes(256, WordBytes))
            => ret' = OkOut(p, "wait4", << c, "ok" >>, c, << 256 >>)
      ]_vars

\* C4 witness: wait4(c, &s) has returned the killed child c with s = 0x100.
C4_Witness ==
    /\ ret.call = "wait4" /\ ret.ok
    /\ ret.arg = << ret.val, "ok" >>
    /\ ret.out = << 256 >>

\* C5: when fork returns the pid c to the caller, c has a record, is among
\* the caller's children and has the caller as its parent, so that the
\* caller's wait4(c) and wait4(-1) find it; the recorded parent of a process
\* never changes; and getppid returns the recorded parent, which is the id
\* getpid returns to the process that forked.
C5_RegisteredBeforeReturn ==
    [][/\ ret'.call = "fork" =>
            /\ procs'[ret'.val].present
            /\ ret'.val \in Children(procs', ret'.pid)
            /\ MgrGetParent(procs', ret'.val) = ret'.pid
            /\ WaitProcs(procs', ret'.pid, WaitPid(ret'.val)) = << ret'.val >>
            /\ WaitProcs(procs', ret'.pid, AnyChild) # << >>
            /\ PollChildren(procs', WaitProcs(procs', ret'.pid, AnyChild)).kind # "echild"
       /\ \A c \in Pids :
            procs[c].present /\ procs'[c].present => procs'[c].parent = procs[c].parent
       /\ ret'.call = "getppid" => ret'.val = procs[ret'.pid].parent
       /\ ret'.call = "getpid" => ret'.val = ret'.pid
      ]_vars

\* C5 witness: getppid in a forked child has returned the pid of the process
\* that forked it.
C5_Witness ==
    /\ ret.call = "getppid"
    /\ ret.val # 0
    /\ ret.pid \in Children(procs, ret.val)

\* What exec replaces: the caller's file table, cwd, address space (owned
\* and activated), trap frame and kernel stack.
ImageOf(p) == << files[p], cwd[p], memory_set[p], active[p], tf[p], kstack[p] >>

ExecFails(p) == ret'.call = "exec" /\ ret'.pid = p /\ ~ret'.ok

\* C6: every step of exec that goes on to a later step of exec or returns an
\* error leaves the caller's file table, cwd, address space, trap frame and
\* kernel stack and the manager's table as they were, and an error is only
\* returned by the steps that precede the activation of the new address space.
C6_FailureChangesNothing ==
    [][\A p \in Pids :
          pc'[p] \in {"exec_read", "exec_load"} \/ ExecFails(p) =>
            /\ ImageOf(p)' = ImageOf(p)
            /\ procs' = procs
            /\ pc[p] \in {"user", "exec_read"}
      ]_vars

\* C6 witness: an exec of a process that runs a loaded program has failed
\* reading the file, and the process still has the program it ran.
C6_Witness ==
    /\ ret.call = "exec" /\ ~ret.ok /\ ret.err = "EIO"
    /\ memory_set[ret.pid].image = "/bin/a"
    /\ active[ret.pid] = memory_set[ret.pid]
    /\ files[ret.pid] = BootFiles

\* C7: when exec returns Ok, the caller's record in the manager (its pid,
\* parent, children and status) is unchanged, its file table and cwd are
\* those it had before the step, and its trap frame is the initial trap
\* frame of the thread built from the file that was read and the copied args.
C7_SuccessKeepsIdentity ==
    [][ret'.call = "exec" /\ ret'.ok =>
          /\ procs' = procs
          /\ files'[ret'.pid] = files[ret'.pid]
          /\ cwd'[ret'.pid] = cwd[ret'.pid]
          /\ tf'[ret'.pid] = [origin |-> "init", image |-> locals[ret'.pid].buf,
                              args |-> locals[ret'.pid].args]
          /\ \A q \in Pids \ {ret'.pid} : ImageOf(q)' = ImageOf(q)
      ]_vars

\* C7 witness: exec of /bin/b has returned Ok to a process that keeps its
\* descriptors and cwd and is about to enter the new program.
C7_Witness ==
    /\ ret.call = "exec" /\ ret.ok
    /\ tf[ret.pid] = [origin |-> "init", image |-> "/bin/b", args |-> << "/bin/b", "hi" >>]
    /\ files[ret.pid] = BootFiles
    /\ cwd[ret.pid] = "/"

\* The selector of the wait4 call the thread p is in matches no child of p.
NoMatch(ps, p, target) ==
    IF target.kind = "AnyChild" THEN Children(ps, p) = {}
    ELSE target.pid \notin Children(ps, p)

\* C8: a round of wait4 whose selector matches no child of the caller returns
\* ECHILD and leaves the manager's table alone, and no thread ever reaches
\* the registration of its interest or the yield with such a selector.
C8_NoChildNoBlock ==
    [][\A p \in Pids :
          /\ StepsFrom(p, "wait_poll") /\ NoMatch(procs, p, locals[p].target) =>
                /\ ret' = Err(p, "wait4", Wait4Arg(p), "ECHILD")
                /\ procs' = procs
          /\ pc'[p] \in {"wait_block", "wait_yield"} =>
                ~NoMatch(procs', p, locals'[p].target)
      ]_vars

\* C8 witness: wait4(p) has returned ECHILD to a caller that has a child,
\* p being the pid of a process that is not its child.
C8_Witness ==
    /\ ret.call = "wait4" /\ ret.err = "ECHILD"
    /\ ret.arg[1] \in Pids
    /\ procs[ret.arg[1]].present
    /\ procs[ret.pid].children # << >>

\* C9: a wait4 called with a wstatus that fails validation returns EFAULT from
\* its first step, with the manager's table (records and wait interests)
\* unchanged, and no thread is ever inside the wait4 loop with such a pointer.
C9_BadStatusPointer ==
    [][/\ ret'.call = "wait4" /\ ret'.arg[2] = "bad" =>
            /\ ret'.err = "EFAULT"
            /\ pc[ret'.pid] = "user"
            /\ procs' = procs
       /\ \A p \in Pids :
            pc'[p] \in {"wait_poll", "wait_block", "wait_yield"} => locals'[p].wstatus # "bad"
      ]_vars

\* C9 witness: wait4(-1, bad) has returned EFAULT while the caller has an
\* Exited child, which is still there.
C9_Witness ==
    /\ ret.call = "wait4" /\ ret.err = "EFAULT"
    /\ ret.arg = << -1, "bad" >>
    /\ \E c \in Children(procs, ret.pid) : IsExited(procs, c)

\* C10: exec with a null argv and a name that is null or a valid C string
\* returns EINVAL from its first step, before the file is looked up and
\* read, the new thread built and its address space activated, with the
\* caller's image unchanged; and no thread is ever in the later steps of an
\* exec whose argv is null.
C10_NullArgv ==
    [][/\ ret'.call = "exec" /\ ret'.arg[2].kind = "null" /\ ret'.arg[1] \in {"null", "ok"} =>
            /\ ret'.err = "EINVAL"
            /\ pc[ret'.pid] = "user"
            /\ \A p \in Pids : ret'.pid = p => ImageOf(p)' = ImageOf(p)
       /\ \A p \in Pids :
            pc'[p] \in {"exec_read", "exec_load"} => locals'[p].argv.kind = "array"
      ]_vars

\* C10 witness: exec(null, null) has returned EINVAL to a process that runs a
\* program an earlier exec loaded.
C10_Witness ==
    /\ ret.call = "exec" /\ ret.err = "EINVAL"
    /\ ret.arg = << "null", [kind |-> "null", v |-> << >>] >>
    /\ memory_set[ret.pid].image = "/bin/a"

\* C11: no kill returns to a caller that named itself; the step of kill(self)
\* leaves the caller Exited(0x100) in the yield of sys_kill, and from there
\* the thread takes no step and is given no return value: its record stays
\* as it is until a wait4 removes it.
C11_KillSelfNeverReturns ==
    [][/\ ret'.call = "kill" => ret'.arg[1] # ret'.pid
       /\ \A p \in Pids :
            /\ InUser(p) /\ pc'[p] = "kill_yield" =>
                    procs'[p].status = Exited(ToBytes(256, WordBytes))
            /\ pc[p] = "kill_yield" /\ kernel' = "ok" =>
                    /\ ret'.pid # p
                    /\ procs'[p].present =>
                            /\ pc'[p] = "kill_yield"
                            /\ procs'[p].status = procs[p].status
      ]_vars

\* C11 witness: a child that killed itself sits Exited(0x100) in the yield of
\* sys_kill, and its parent, which waited for it, has been woken.
C11_Witness ==
    \E p, q \in Pids :
        /\ pc[p] = "kill_yield"
        /\ procs[p].status = Exited(ToBytes(256, WordBytes))
        /\ p \in Children(procs, q)
        /\ pc[q] = "wait_yield" /\ procs[q].status = Ready

\* The process a is off the run queue: asleep, parked or waiting for a child.
SleepsOrWaits(ps, a) ==
    /\ ps[a].present
    /\ ps[a].status.k \in {"Sleeping", "Waiting", "WaitingChild"}

\* C12: a kill(a) by another process while a is blocked in sleep or in wait4
\* leaves a Exited(0x100) where it blocked; and an Exited thread that is in
\* the blocking point of sleep or of wait4 takes no step from there and is
\* given no return value (no 0 from sleep, no pid or ECHILD from wait4, and so
\* no child reaped): its record stays as it is until a wait4 removes it.
C12_KilledWhileBlocked ==
    [][\A a \in Pids :
          /\ ret'.call = "kill" /\ ret'.arg[1] = a /\ SleepsOrWaits(procs, a) =>
                /\ procs'[a].status = Exited(ToBytes(256, WordBytes))
                /\ pc'[a] = pc[a]
          /\ IsExited(procs, a) /\ pc[a] \in {"sleep_wait", "wait_yield"} /\ kernel' = "ok" =>
                /\ ret'.pid # a
                /\ procs'[a].present =>
                        /\ pc'[a] = pc[a]
                        /\ procs'[a].status = procs[a].status
      ]_vars

\* C12 witness: a child has killed its parent, which was blocked in wait4
\* for it; the parent is Exited(0x100) at its yield.
C12_Witness ==
    \E a \in Pids :
        /\ pc[a] = "wait_yield"
        /\ procs[a].status = Exited(ToBytes(256, WordBytes))
        /\ ret.call = "kill" /\ ret.arg = << a >>
        /\ ret.pid \in Children(procs, a)

\* A parked sleeper has been killed by another process.
C12_ParkedKilled ==
    \E a \in Pids :
        /\ pc[a] = "sleep_wait" /\ ParksForever(locals[a].time)
        /\ procs[a].status = Exited(ToBytes(256, WordBytes))
        /\ ret.call = "kill" /\ ret.arg = << a >>

\* The step is the first half of an exit call of the thread p.
ExitCalled(p) ==
    \E exit_code \in ExitCodes, closing \in CloseResults : SysExit(p, exit_code, closing)

\* C13: an exit call never fails: whatever closing the caller's descriptors
\* returns, the kernel stays up, the caller's file table ends empty and the
\* caller goes on to publish its status.
C13_ExitInfallible ==
    [][\A p \in Pids :
          ExitCalled(p) =>
            /\ kernel' = "ok"
            /\ files'[p] = {}
            /\ pc'[p] = "exit_publish"
      ]_vars

\* C14: the status exit publishes for the code the caller passed is
\* Exited(code & 0xFF); so the status of a process that ended in exit lies in
\* 0 .. 255 and is never the 0x100 of kill.
C14_ExitPublishesLowByte ==
    [][\A p \in Pids :
          StepsFrom(p, "exit_publish") =>
            procs'[p].status = Exited(ToBytes(LowByte(locals[p].exit_code), WordBytes))
      ]_vars

\* C15: set_priority(priority) records min(priority, 255) for the caller,
\* changes no other record and no other field, and returns 0.
C15_PriorityClamped ==
    [][ret'.call = "set_priority" =>
          /\ ret'.ok /\ ret'.val = 0
          /\ procs' = [procs EXCEPT ![ret'.pid].priority = ClampU8(ret'.arg[1])]
      ]_vars

C17_KeepsKernelStack ==
    [][\A p \in Pids :
          ret'.call = "exec" /\ ret'.ok /\ ret'.pid = p =>
            /\ kstack'[p] = kstack[p]
            /\ ~kstack'[p].placeholder
            /\ tf'[p].origin = "init" /\ tf'[p].image = locals[p].buf
            /\ memory_set'[p] = [image |-> locals[p].buf, args |-> locals[p].args]
            /\ active'[p] = memory_set'[p]
            /\ discarded' =
                  [tf |-> tf[p],
                   kstack |-> [owner |-> p, placeholder |-> TRUE],
                   proc |-> [memory_set |-> memory_set[p], files |-> files[p],
                             cwd |-> cwd[p]]]
      ]_vars

\* C17 witness: a process that ran /bin/a has exec'ed /bin/b: it runs /bin/b
\* on its own kernel stack, and the dropped Thread holds the placeholder stack
\* and the image of /bin/a.
C17_Witness ==
    /\ ret.call = "exec" /\ ret.ok
    /\ memory_set[ret.pid].image = "/bin/b"
    /\ kstack[ret.pid] = [owner |-> ret.pid, placeholder |-> FALSE]
    /\ discarded.kstack.placeholder
    /\ discarded.proc.memory_set.image = "/bin/a"
    /\ discarded.tf.image = "/bin/a"

\* C18: the file table of a process inside exit is empty from the point
\* where sys_exit is about to publish the status: the manager records Exited
\* for an empty table, and whoever observes a process that ended in exit
\* finds its table empty.
C18_ClosedBeforeExited ==
    \A c \in Pids :
        /\ pc[c] = "exit_publish" => files[c] = {}
        /\ ExitedByExit(c) => files[c] = {}

\* C18 witness: a child that held descriptors has ended in exit with an empty
\* table, and its parent, woken from wait4, still holds its own.
C18_Witness ==
    \E c, q \in Pids :
        /\ ExitedByExit(c) /\ files[c] = {}
        /\ c \in Children(procs, q)
        /\ pc[q] = "wait_yield" /\ procs[q].status = Ready
        /\ files[q] = BootFiles

C20_EmptyArgvFails ==
    [][\A p \in Pids :
          /\ Runnable(p) /\ pc[p] = "exec_read" /\ pc'[p] # "exec_read"
          /\ locals[p].argv = [kind |-> "array", v |-> << >>]
          => /\ kernel' = "ok"
             /\ ExecFails(p)
             /\ ImageOf(p)' = ImageOf(p)
      ]_vars

====
